---- MODULE Spec2Model ----
(***************************************************************************)
(* Model of azurerm_management_group_policy_definition                     *)
(* (azurerm/resource_arm_management_group_policy_definition.go).           *)
(*                                                                         *)
(* Strings are sequences over an alphabet whose symbols are the separator  *)
(* "/" and slash-free words, so strings.Split and strings.Join are         *)
(* computed on them as the Go functions compute them.                      *)
(*                                                                         *)
(* Two external collaborators are not part of the resource file and are    *)
(* modelled by their contract:                                             *)
(*  - policy.DefinitionsClient (azure-sdk-for-go v26.7.0): every call      *)
(*    answers with an HTTP status; a status outside the accepted ones      *)
(*    (200 for Get, 200/204 for Delete) comes back with err != nil.  The   *)
(*    resource relies on this: Read and Delete test for 404 only inside    *)
(*    `if err != nil`.                                                     *)
(*  - resource.StateChangeConf.WaitForState (hashicorp/terraform           *)
(*    helper/resource, the version go.mod pins): the refresh loop, its     *)
(*    back-off and its timeout, as configured at the call site.            *)
(***************************************************************************)
EXTENDS Integers, Sequences, FiniteSets, TLC

\* ------------------------------------------------------------------ bounds
\* longest generated id string, in symbols
MaxIdLen == 10
\* longest latency of one remote read, in multiples of MinTimeout
MaxLatency == 3

\* ----------------------------------------------------------------- strings
Sep == "/"
Empty == <<>>
Nil == "nil"

\* index of the first separator of s, 0 when there is none
IndexOfSep(s) ==
  IF \E i \in 1..Len(s) : s[i] = Sep
  THEN CHOOSE i \in 1..Len(s) : s[i] = Sep /\ \A j \in 1..(i - 1) : s[j] # Sep
  ELSE 0

RECURSIVE Split(_)
\* strings.Split(s, "/"): always at least one component
Split(s) ==
  LET p == IndexOfSep(s)
  IN IF p = 0 THEN <<s>>
     ELSE <<SubSeq(s, 1, p - 1)>> \o Split(SubSeq(s, p + 1, Len(s)))

RECURSIVE Join(_)
\* strings.Join(parts, "/")
Join(parts) ==
  IF Len(parts) = 0 THEN Empty
  ELSE IF Len(parts) = 1 THEN parts[1]
  ELSE parts[1] \o <<Sep>> \o Join(Tail(parts))

Digits == <<"0", "1", "2", "3", "4", "5", "6", "7", "8", "9">>

RECURSIVE Itoa(_)
\* strconv.Itoa for the non-negative numbers a status code can be
Itoa(n) ==
  IF n < 10 THEN <<Digits[n + 1]>>
  ELSE Itoa(n \div 10) \o <<Digits[(n % 10) + 1]>>

\* ------------------------------------------------------------ id parsing
\* len(components) != 9
NumComponents == 9
\* "should have 8 segments"
ExpectedSegments == 8
\* components[0:5]
ScopeComponents == 5

NoID == [ManagementGroupID |-> Empty, Name |-> Empty]
NoError == [kind |-> Nil, expected |-> 0, got |-> 0]

\* a message that prints len(components) itself
ReportedSegmentsAll(components) == Len(components)

\* the count the error message of a wrong shape prints with %d
ReportedSegments(components) == Len(components) - 1

\* the parser with the scope cut one component short: components[0:4]
parseWithShortScope(s) ==
  LET components == Split(s)
  IN IF Len(components) # NumComponents
     THEN [ok |-> FALSE, idObj |-> NoID,
           err |-> [kind |-> "segments", expected |-> ExpectedSegments,
                    got |-> ReportedSegments(components)]]
     ELSE [ok |-> TRUE,
           idObj |-> [ManagementGroupID |-> Join(SubSeq(components, 1, ScopeComponents - 1)),
                      Name |-> components[Len(components)]],
           err |-> NoError]

\* parseManagementGroupPolicyDefinitionNameFromID
parseManagementGroupPolicyDefinitionNameFromID(s) ==
  LET components == Split(s)
  IN IF Len(components) = 0
     THEN [ok |-> FALSE, idObj |-> NoID,
           err |-> [kind |-> "empty", expected |-> 0, got |-> 0]]
     ELSE IF Len(components) # NumComponents
     THEN [ok |-> FALSE, idObj |-> NoID,
           err |-> [kind |-> "segments", expected |-> ExpectedSegments,
                    got |-> ReportedSegments(components)]]
     ELSE [ok |-> TRUE,
           idObj |-> [ManagementGroupID |-> Join(SubSeq(components, 1, ScopeComponents)),
                      Name |-> components[Len(components)]],
           err |-> NoError]

\* ------------------------------------------------------------- id strings
LiteralId == <<"/", "providers", "/", "Microsoft.Management", "/", "managementGroups",
               "/", "mg1", "/", "providers", "/", "Microsoft.Authorization",
               "/", "policyDefinitions", "/", "pol1">>
LiteralScope == <<"/", "providers", "/", "Microsoft.Management", "/", "managementGroups",
                  "/", "mg1">>
\* the same resource as the service spells it back (lower-case collection name)
LowerId == <<"/", "providers", "/", "Microsoft.Management", "/", "managementgroups",
             "/", "mg1", "/", "providers", "/", "Microsoft.Authorization",
             "/", "policyDefinitions", "/", "pol1">>
\* a subscription-scoped id: 7 components
SubscriptionId == <<"/", "subscriptions", "/", "sub1", "/", "providers", "/",
                    "Microsoft.Authorization", "/", "policyDefinitions", "/", "pol1">>
\* well-formed in shape only: none of the literal segments is right
ShapeOnlyId == <<"/", "a", "/", "b", "/", "c", "/", "d", "/", "e", "/", "f", "/", "g",
                 "/", "h">>

Alphabet == {Sep, "a"}
GeneratedIds == UNION {[1..n -> Alphabet] : n \in 0..MaxIdLen}
Ids == GeneratedIds \cup {LiteralId, LowerId, SubscriptionId, ShapeOnlyId}

\* ------------------------------------------------------------ remote API
\* HTTP statuses the remote answers with
StatusOK == 200
StatusNoContent == 204
StatusNotFound == 404
StatusServerError == 500

\* the ids the service may spell a stored definition with, and one of another shape
RemoteIds == {LiteralId, LowerId, SubscriptionId}
\* ids terraform import can put into the state (ImportStatePassthrough)
ImportIds == {Empty, LiteralId, ShapeOnlyId, SubscriptionId}

\* client.GetAtManagementGroup: err != nil unless the status is 200
GetResponse(status, rid) ==
  [status |-> status, err |-> status # StatusOK,
   ID |-> IF status = StatusOK THEN rid ELSE Empty]

\* what a read can answer: the service is eventually consistent, so a stored
\* definition may still read as not found
GetResponses(stored) ==
  {GetResponse(s, Empty) : s \in {StatusNotFound, StatusServerError}}
    \cup (IF stored THEN {GetResponse(StatusOK, rid) : rid \in RemoteIds} ELSE {})

\* client.DeleteAtManagementGroup: err != nil unless the status is 200 or 204
DeleteResponse(status) ==
  [status |-> status, err |-> status \notin {StatusOK, StatusNoContent}, ID |-> Empty]

DeleteResponses(stored) ==
  {DeleteResponse(s) : s \in {StatusNotFound, StatusServerError}}
    \cup (IF stored THEN {DeleteResponse(StatusOK), DeleteResponse(StatusNoContent)} ELSE {})

\* utils.ResponseWasNotFound
ResponseWasNotFound(resp) == resp.status = StatusNotFound

\* ---------------------------------------------------- the consistency wait
\* the clock counts milliseconds
Second == 1000
Minute == 60 * Second

\* stateConf of CreateUpdate
Pending == {<<"4", "0", "4">>}
Target == {<<"2", "0", "0">>}
Timeout == 5 * Minute
MinTimeout == 10 * Second
ContinuousTargetOccurence == 10
\* StateChangeConf's defaults for the fields the call site leaves unset
NotFoundChecks == 20
PollInterval == 0
\* how long WaitForState waits, after the timeout, for the refresh in flight
refreshGracePeriod == 30 * Second

Latencies == {i * MinTimeout : i \in 0..MaxLatency}

\* a refresh function that reports a failed read as "nothing there yet"
refreshFuncSwallowingErrors(resp) ==
  IF resp.err
  THEN [resNil |-> TRUE, state |-> Itoa(resp.status), err |-> FALSE]
  ELSE [resNil |-> FALSE, state |-> Itoa(resp.status), err |-> FALSE]

\* managementGroupPolicyDefinitionRefreshFunc: (result is nil, state, error) of one poll
managementGroupPolicyDefinitionRefreshFunc(resp) ==
  IF resp.err
  THEN [resNil |-> TRUE, state |-> Itoa(resp.status), err |-> TRUE]
  ELSE [resNil |-> FALSE, state |-> Itoa(resp.status), err |-> FALSE]

\* one iteration of WaitForState's refresh loop on the refresh result r, with the
\* counters targetOccurence = occ and notfoundTick = nf
RefreshStep(r, occ, nf) ==
  IF r.err
  THEN [outcome |-> "refresh error", occ |-> occ, nf |-> nf]
  ELSE IF r.resNil /\ Target = {}
  THEN IF ContinuousTargetOccurence = occ + 1
       THEN [outcome |-> "done", occ |-> occ + 1, nf |-> nf]
       ELSE [outcome |-> "continue", occ |-> occ + 1, nf |-> nf]
  ELSE IF r.resNil
  THEN IF nf + 1 > NotFoundChecks
       THEN [outcome |-> "not found error", occ |-> occ, nf |-> nf + 1]
       ELSE [outcome |-> "continue", occ |-> occ, nf |-> nf + 1]
  ELSE IF r.state \in Target /\ ContinuousTargetOccurence = occ + 1
  THEN [outcome |-> "done", occ |-> occ + 1, nf |-> 0]
  ELSE LET occ1 == IF r.state \in Target THEN occ + 1 ELSE occ
           occ2 == IF r.state \in Pending THEN 0 ELSE occ1
       IN IF r.state \notin Target /\ r.state \notin Pending /\ Pending # {}
          THEN [outcome |-> "unexpected state", occ |-> occ2, nf |-> 0]
          ELSE [outcome |-> "continue", occ |-> occ2, nf |-> 0]

\* the sleep before the next refresh: back-off, then bounded below by MinTimeout
NextWait(w, occ) ==
  LET w1 == IF w = 0 THEN Second \div 10 ELSE w
      w2 == IF occ = 0 THEN w1 * 2 ELSE w1
  IN IF PollInterval > 0 /\ PollInterval < 180 * Second THEN PollInterval
     ELSE IF w2 < MinTimeout THEN MinTimeout
     ELSE IF w2 > 10 * Second THEN 10 * Second
     ELSE w2

\* a timer set to MinTimeout instead of Timeout
TimedOutAtMinTimeout(t) == t >= MinTimeout

\* the timeout timer of WaitForState has fired at time t
TimedOut(t) == t >= Timeout

\* --------------------------------------------------------- handler bodies
\* a Read that returns early on not-found without d.SetId("")
ReadBodyKeepingId(cur, resp) ==
  LET p == parseManagementGroupPolicyDefinitionNameFromID(cur)
  IN IF ~p.ok THEN [id |-> cur, err |-> "ParseError", called |-> FALSE]
     ELSE IF resp.err
     THEN IF ResponseWasNotFound(resp)
          THEN [id |-> cur, err |-> Nil, called |-> TRUE]
          ELSE [id |-> cur, err |-> "ReadError", called |-> TRUE]
     ELSE [id |-> cur, err |-> Nil, called |-> TRUE]

\* resourceArmManagementGroupPolicyDefinitionRead on local id cur and the
\* remote's answer resp: the id it leaves, the error it returns
\* (the attributes it copies from a successful answer are not part of the state)
ReadBody(cur, resp) ==
  LET p == parseManagementGroupPolicyDefinitionNameFromID(cur)
  IN IF ~p.ok THEN [id |-> cur, err |-> "ParseError", called |-> FALSE]
     ELSE IF resp.err
     THEN IF ResponseWasNotFound(resp)
          THEN [id |-> Empty, err |-> Nil, called |-> TRUE]
          ELSE [id |-> cur, err |-> "ReadError", called |-> TRUE]
     ELSE [id |-> cur, err |-> Nil, called |-> TRUE]

\* a Delete that returns every error of the remote, not-found included
DeleteBodyStrict(cur, resp) ==
  LET p == parseManagementGroupPolicyDefinitionNameFromID(cur)
  IN IF ~p.ok THEN [err |-> "ParseError", called |-> FALSE]
     ELSE IF resp.err
     THEN [err |-> "DeleteError", called |-> TRUE]
     ELSE [err |-> Nil, called |-> TRUE]

\* resourceArmManagementGroupPolicyDefinitionDelete
DeleteBody(cur, resp) ==
  LET p == parseManagementGroupPolicyDefinitionNameFromID(cur)
  IN IF ~p.ok THEN [err |-> "ParseError", called |-> FALSE]
     ELSE IF resp.err
     THEN IF ResponseWasNotFound(resp)
          THEN [err |-> Nil, called |-> TRUE]
          ELSE [err |-> "DeleteError", called |-> TRUE]
     ELSE [err |-> Nil, called |-> TRUE]

\* ------------------------------------------------------------------ state
VARIABLES
  pc,               \* "idle", or where CreateUpdate stands: "wait", "get", "read"
  id,               \* d.Id()
  remote,           \* the definition is stored remotely
  upserted,         \* the last CreateUpdate entered has written it
  idBefore,         \* d.Id() when the last handler was entered
  targetOccurence,  \* WaitForState's counters
  notfoundTick,
  wait,
  clock,            \* time since WaitForState was entered
  polled,           \* the statuses the refresh function has seen in this wait
  waitResult,       \* "none", "running", "success", or the error of WaitForState
  gotId,            \* the ID the Get after the wait returned
  lastOp,           \* the handler entered last
  lastErr,          \* what it returned ("running" until it returns)
  lastStatus,       \* the last status the remote answered it with
  afterDelete,      \* the handler before it was a Delete that removed the definition
  inputId, parsed   \* the argument and the result of a direct call of the parser

waitVars == <<targetOccurence, notfoundTick, wait, clock, polled, waitResult>>
lastVars == <<lastOp, lastErr, lastStatus, afterDelete>>
parseVars == <<inputId, parsed>>
mainVars == <<pc, id, remote, upserted, idBefore, waitVars, gotId, lastVars>>
vars == <<mainVars, parseVars>>

NotParsed == [ok |-> FALSE, idObj |-> NoID, err |-> [kind |-> "not called", expected |-> 0, got |-> 0]]

\* no WaitForState call is on the stack
NoWait ==
  /\ targetOccurence' = 0 /\ notfoundTick' = 0 /\ wait' = 0 /\ clock' = 0
  /\ polled' = <<>> /\ waitResult' = "none" /\ gotId' = Empty

MainInit ==
  /\ pc = "idle" /\ id = Empty /\ remote = FALSE /\ upserted = FALSE
  /\ idBefore = Empty
  /\ targetOccurence = 0 /\ notfoundTick = 0 /\ wait = 0 /\ clock = 0
  /\ polled = <<>> /\ waitResult = "none" /\ gotId = Empty
  /\ lastOp = "none" /\ lastErr = Nil /\ lastStatus = 0 /\ afterDelete = FALSE

Init == MainInit /\ inputId = Empty /\ parsed = NotParsed

\* the framework calls handler op
Enter(op) ==
  /\ pc = "idle"
  /\ lastOp' = op
  /\ idBefore' = id
  /\ afterDelete' = (lastOp = "Delete" /\ lastErr = Nil
                      /\ lastStatus \in {StatusOK, StatusNoContent})

\* the handler returns err, having last seen status
Return(err, status) ==
  /\ pc' = "idle"
  /\ lastErr' = err
  /\ lastStatus' = status

\* CreateUpdate up to the call of WaitForState: the JSON fields are expanded,
\* then the upsert is sent
CreateUpdateUpsert(jsonOk, upsertOk) ==
  /\ Enter("CreateUpdate")
  /\ UNCHANGED <<id, parseVars>>
  /\ IF ~jsonOk
     THEN /\ Return("MalformedInput", 0)
          /\ upserted' = FALSE
          /\ NoWait
          /\ UNCHANGED remote
     ELSE IF ~upsertOk
     THEN /\ Return("RemoteWriteError", StatusServerError)
          /\ upserted' = FALSE
          /\ NoWait
          /\ UNCHANGED remote
     ELSE /\ remote' = TRUE /\ upserted' = TRUE
          /\ pc' = "wait" /\ lastErr' = "running" /\ lastStatus' = StatusOK
          /\ targetOccurence' = 0 /\ notfoundTick' = 0 /\ wait' = 0 /\ clock' = 0
          /\ polled' = <<>> /\ waitResult' = "running" /\ gotId' = Empty

\* WaitForState: the loop sleeps `wait`, then calls the refresh function, which
\* gets resp after lat
WaitRefresh(resp, lat) ==
  LET start == clock + wait
      finish == start + lat
      r == managementGroupPolicyDefinitionRefreshFunc(resp)
      step == RefreshStep(r, targetOccurence, notfoundTick)
  IN /\ pc = "wait"
     /\ ~TimedOut(start)
     /\ UNCHANGED <<id, remote, upserted, idBefore, gotId, parseVars, lastOp, afterDelete>>
     /\ IF finish > Timeout + refreshGracePeriod
        THEN \* the grace period ends before the answer is there
             /\ clock' = Timeout + refreshGracePeriod
             /\ waitResult' = "timeout"
             /\ UNCHANGED <<targetOccurence, notfoundTick, wait, polled>>
             /\ Return("WaitError", lastStatus)
        ELSE /\ clock' = finish
             /\ polled' = Append(polled, resp.status)
             /\ targetOccurence' = step.occ
             /\ notfoundTick' = step.nf
             /\ wait' = NextWait(wait, step.occ)
             /\ IF step.outcome = "done"
                THEN /\ waitResult' = "success"
                     /\ pc' = "get"
                     /\ lastStatus' = resp.status
                     /\ UNCHANGED lastErr
                ELSE IF TimedOut(finish)
                THEN \* the answer came in the grace period and is not the target
                     /\ waitResult' = "timeout"
                     /\ Return("WaitError", resp.status)
                ELSE IF step.outcome = "continue"
                THEN /\ lastStatus' = resp.status
                     /\ UNCHANGED <<pc, waitResult, lastErr>>
                ELSE /\ waitResult' = step.outcome
                     /\ Return("WaitError", resp.status)

\* WaitForState: the timeout fires while the loop sleeps
WaitTimeout ==
  /\ pc = "wait"
  /\ TimedOut(clock + wait)
  /\ clock' = clock + wait
  /\ waitResult' = "timeout"
  /\ Return("WaitError", lastStatus)
  /\ UNCHANGED <<id, remote, upserted, idBefore, gotId, parseVars, lastOp, afterDelete,
                 targetOccurence, notfoundTick, wait, polled>>

\* CreateUpdate after the wait: the Get whose ID becomes the local id
CreateUpdateGet(resp) ==
  /\ pc = "get"
  /\ resp \in GetResponses(remote)
  /\ UNCHANGED <<remote, upserted, idBefore, waitVars, parseVars, lastOp, afterDelete>>
  /\ IF resp.err
     THEN /\ Return("RemoteReadError", resp.status)
          /\ UNCHANGED <<id, gotId>>
     ELSE /\ id' = resp.ID /\ gotId' = resp.ID
          /\ pc' = "read"
          /\ lastStatus' = resp.status
          /\ UNCHANGED lastErr

\* CreateUpdate's last statement: return Read(d, meta)
CreateUpdateRead(resp) ==
  LET out == ReadBody(id, resp)
  IN /\ pc = "read"
     /\ resp \in GetResponses(remote)
     /\ id' = out.id
     /\ Return(out.err, IF out.called THEN resp.status ELSE lastStatus)
     /\ UNCHANGED <<remote, upserted, idBefore, waitVars, gotId, parseVars, lastOp, afterDelete>>

\* the Read handler
Read(resp) ==
  LET out == ReadBody(id, resp)
  IN /\ Enter("Read")
     /\ resp \in GetResponses(remote)
     /\ id' = out.id
     /\ Return(out.err, IF out.called THEN resp.status ELSE 0)
     /\ NoWait
     /\ UNCHANGED <<remote, upserted, parseVars>>

\* the Delete handler
Delete(resp) ==
  LET out == DeleteBody(id, resp)
  IN /\ Enter("Delete")
     /\ resp \in DeleteResponses(remote)
     /\ remote' = IF out.called /\ ~resp.err THEN FALSE ELSE remote
     /\ Return(out.err, IF out.called THEN resp.status ELSE 0)
     /\ NoWait
     /\ UNCHANGED <<id, upserted, parseVars>>

\* Importer: schema.ImportStatePassthrough puts the given string into d.Id()
Import(newId) ==
  /\ Enter("Import")
  /\ id' = newId
  /\ Return(Nil, 0)
  /\ NoWait
  /\ UNCHANGED <<remote, upserted, parseVars>>

Next ==
  \/ \E jsonOk \in BOOLEAN, upsertOk \in BOOLEAN : CreateUpdateUpsert(jsonOk, upsertOk)
  \/ \E resp \in GetResponses(TRUE), lat \in Latencies : WaitRefresh(resp, lat)
  \/ WaitTimeout
  \/ \E resp \in GetResponses(TRUE) : CreateUpdateGet(resp)
  \/ \E resp \in GetResponses(TRUE) : CreateUpdateRead(resp)
  \/ \E resp \in GetResponses(TRUE) : Read(resp)
  \/ \E resp \in DeleteResponses(TRUE) : Delete(resp)
  \/ \E newId \in ImportIds : Import(newId)

Spec == Init /\ [][Next]_vars

\* one step of the wait: the refresh goroutine and the timers of WaitForState run
WaitStep ==
  \/ WaitTimeout
  \/ \E resp \in GetResponses(TRUE), lat \in Latencies : WaitRefresh(resp, lat)

FairSpec == Spec /\ WF_vars(WaitStep)

\* ------------------------------------------------ direct calls of the parser
ParseInit == MainInit /\ inputId \in Ids /\ parsed = NotParsed

ParseCall ==
  /\ parsed = NotParsed
  /\ parsed' = parseManagementGroupPolicyDefinitionNameFromID(inputId)
  /\ UNCHANGED <<inputId, mainVars>>

ParseNext == ParseCall
ParseSpec == ParseInit /\ [][ParseNext]_vars

\* =================================================================== claims
\* number of separators in s, counted without splitting
SlashCount(s) == Cardinality({i \in 1..Len(s) : s[i] = Sep})
\* position of the k-th separator of s
SlashAt(s, k) ==
  CHOOSE i \in 1..Len(s) :
    s[i] = Sep /\ Cardinality({j \in 1..i : s[j] = Sep}) = k
\* the id has the shape the parser accepts: 8 separators
WellFormed(s) == SlashCount(s) = 8
\* the last n statuses the wait has polled are all 200
LastAreOK(n) ==
  /\ Len(polled) >= n
  /\ \A i \in (Len(polled) - n + 1)..Len(polled) : polled[i] = 200
CreateUpdateReturned == lastOp = "CreateUpdate" /\ pc = "idle"
ParserCalled == parsed # NotParsed

\* C1: the wait reports success only with 10 successes (200) in a row right
\* before it, and a not-found answer (404) leaves the success counter at zero.
C1_StreakAndReset ==
  /\ waitResult = "success" => LastAreOK(10)
  /\ (polled # <<>> /\ polled[Len(polled)] = 404) => targetOccurence = 0

\* C2: a not-found answer (404) to a poll does not fail the wait: while the
\* timeout has not elapsed, the wait is still running after it.
C2_NotFoundIsPending ==
  (polled # <<>> /\ polled[Len(polled)] = 404 /\ clock < 300000)
    => (waitResult = "running" /\ pc = "wait")

\* C3: when CreateUpdate returns success the local id is non-empty and is the
\* ID the Get after the wait returned.
C3_IdRecordedOnSuccess ==
  (CreateUpdateReturned /\ lastErr = Nil) => (id # Empty /\ id = gotId)

\* C4: when CreateUpdate returns an error, the call has not written the remote
\* definition.
C4_FailureIsAtomic ==
  (CreateUpdateReturned /\ lastErr # Nil) => ~upserted

\* C5 as stated: whenever the wait has ended, it ended with success or with the
\* timeout error.  Checked on the waits in which the remote never answered
\* not-found, so that what refutes it is an answer the specification itself
\* calls fatal.
C5_SuccessOrTimeoutOnly ==
  (waitResult \notin {"none", "running"} /\ \A i \in 1..Len(polled) : polled[i] # 404)
    => waitResult \in {"success", "timeout"}

\* how a wait can stand or end
C5_Outcomes ==
  /\ waitResult \in {"none", "running", "success", "timeout", "refresh error"}
  /\ (waitResult = "running") <=> (pc = "wait")
  /\ waitResult = "success" => (LastAreOK(10) /\ pc \in {"get", "read", "idle"})
  /\ waitResult = "timeout" =>
       (clock >= 300000 /\ ~LastAreOK(10) /\ CreateUpdateReturned /\ lastErr = "WaitError")
  /\ waitResult = "refresh error" =>
       (polled # <<>> /\ polled[Len(polled)] # 200
        /\ CreateUpdateReturned /\ lastErr = "WaitError")

\* C5 (amended): the wait always ends, and it ends with success (10 successes
\* in a row), with the timeout error once 5 minutes have elapsed without them,
\* or at once with the error of a failed remote read; it never polls forever.
C5_WaitTerminates ==
  /\ []C5_Outcomes
  /\ (pc = "wait") ~> (pc # "wait")

\* a wait that ran into the timeout although every answer was a success
C5_Witness ==
  /\ waitResult = "timeout"
  /\ Len(polled) >= 2
  /\ \A i \in 1..Len(polled) : polled[i] = 200

\* C6: Read on a well-formed id: a not-found answer returns no error and clears
\* the local id; any other failed answer returns an error and leaves the id.
C6_ReadNotFoundClears ==
  (lastOp = "Read" /\ WellFormed(idBefore)) =>
    /\ lastStatus = 404 => (lastErr = Nil /\ id = Empty)
    /\ lastStatus \notin {200, 404} => (lastErr = "ReadError" /\ id = idBefore)

C6_Witness ==
  /\ lastOp = "Read" /\ WellFormed(idBefore) /\ idBefore # Empty
  /\ lastStatus = 404 /\ lastErr = Nil /\ id = Empty

\* C7: Delete on a well-formed id returns success when the remote answers
\* not-found (so also when it is applied again after a Delete that removed the
\* definition), and an error on any other failed answer.
C7_DeleteIdempotent ==
  (lastOp = "Delete" /\ WellFormed(idBefore)) =>
    /\ lastStatus \in {200, 204, 404} => lastErr = Nil
    /\ lastStatus \notin {200, 204, 404} => lastErr = "DeleteError"

C7_Witness ==
  /\ lastOp = "Delete" /\ afterDelete /\ ~remote
  /\ WellFormed(idBefore) /\ lastStatus = 404 /\ lastErr = Nil

\* C8 as stated: for an id that does not split into 9 segments the parser
\* fails and the count its error reports is the number of segments of the id.
C8_ReportsSegmentCount ==
  (ParserCalled /\ SlashCount(inputId) + 1 # 9) =>
    (~parsed.ok /\ parsed.err.got = SlashCount(inputId) + 1)

\* C8 (amended): for an id that does not split into 9 segments the parser
\* fails, and its error reports 8 as the expected count and, as the actual
\* count, one less than the number of segments (the number of "/" in the id).
C8_ReportsSeparatorCount ==
  (ParserCalled /\ SlashCount(inputId) + 1 # 9) =>
    /\ ~parsed.ok
    /\ parsed.err.kind = "segments"
    /\ parsed.err.expected = 8
    /\ parsed.err.got = SlashCount(inputId)

C8_Witness ==
  /\ ParserCalled /\ ~parsed.ok
  /\ inputId = SubscriptionId /\ parsed.err.got = 6

\* C9: an id that splits into 9 segments parses, whatever its segments are:
\* scopeId is the id up to its 5th "/" (the first 5 segments joined by "/"),
\* name is what follows its last "/"; the literal id of the specification
\* gives /providers/Microsoft.Management/managementGroups/mg1 and pol1.
C9_ParsesByShape ==
  (ParserCalled /\ SlashCount(inputId) = 8) =>
    /\ parsed.ok
    /\ parsed.idObj.ManagementGroupID = SubSeq(inputId, 1, SlashAt(inputId, 5) - 1)
    /\ parsed.idObj.Name = SubSeq(inputId, SlashAt(inputId, 8) + 1, Len(inputId))
    /\ inputId = LiteralId =>
         (parsed.idObj.ManagementGroupID = LiteralScope /\ parsed.idObj.Name = <<"pol1">>)

C9_Witness ==
  /\ ParserCalled /\ parsed.ok /\ inputId = LiteralId
  /\ parsed.idObj.Name = <<"pol1">>

\* C10: the first answer to a poll that is a failure other than not-found ends
\* the wait: no poll follows it, and CreateUpdate returns an error with the
\* local id as it was.
C10_OtherErrorIsFatal ==
  \A i \in 1..Len(polled) :
    polled[i] \notin {200, 404} =>
      /\ i = Len(polled)
      /\ waitResult \notin {"running", "success"}
      /\ CreateUpdateReturned
      /\ lastErr \notin {Nil, "running"}
      /\ id = idBefore

C10_Witness ==
  /\ Len(polled) >= 2
  /\ polled[Len(polled)] = 500
  /\ polled[1] = 200
  /\ CreateUpdateReturned /\ lastErr = "WaitError"
====
